---------------------------- MODULE Spec2Model ----------------------------
(***************************************************************************)
(* DevMate (vosbek/strands): the prioritised codebase scan of              *)
(* devmate_large.py (analyze_codebase_smart) and the JSON-file-backed      *)
(* project context with its task tools (devmate.py, devmate_large.py).     *)
(*                                                                         *)
(* SpecScan : one call of analyze_codebase_smart, statement by statement,  *)
(*            over a directory tree that other programs may change while   *)
(*            the scan runs.                                               *)
(* SpecTests: the same call over a tree with test code, from the scan     *)
(*            root or the directory above it, under several batch sizes.   *)
(* SpecCtx  : two assistant processes on one project root, each with its   *)
(*            own in-memory context, sharing the context file.             *)
(* SpecPriority : _calculate_file_priority on paths of growing depth, and  *)
(*            on the same paths renamed with a security keyword.           *)
(* SpecSave : save_context called on its own between the task tools.       *)
(* SpecRepl : the interactive loop of main, input by input.                *)
(* SpecNesting : the nesting level check of _analyze_file_content, line    *)
(*            by line, over contents in several brace and colon styles.    *)
(* SpecTasks: the task tools of devmate.py next to add_task_reminder and   *)
(*            complete_task of the personal assistant.                     *)
(***************************************************************************)
EXTENDS Integers, Sequences, FiniteSets, TLC

VARIABLES
    tree,       \* the files below the scan root when the scan starts
    rootState,  \* "ok" | "missing" | "unreadable": the scan root itself
    deleted,    \* files of the tree removed by another program since
    args,       \* the arguments of the analyze_codebase_smart call
    cwd,        \* Path.cwd() of the process
    scan,       \* the locals of analyze_codebase_smart and its position
    outcome,    \* what the call handed to its caller
    ctx,        \* project_ctx.context of each process
    disk,       \* the content of .devmate_context.json
    now,        \* datetime.now(), a logical clock
    last,       \* the tool call a process completed last, and its result
    probe,      \* a path handed to _calculate_file_priority, and the score
    repl,       \* the interactive loop of main: its position and last print
    nest,       \* the nesting loop of _analyze_file_content over one content
    memory      \* the personal assistant: memory_manager.memory, its file, its last call

vars == <<tree, rootState, deleted, args, cwd, scan, outcome, ctx, disk, now, last, probe,
          repl, nest, memory>>

-----------------------------------------------------------------------------
(* Bounds of the model *)

\* the largest number of files the tree holds
MaxTreeFiles == 3
\* max_files ranges over 0 .. MaxFilesArg
MaxFilesArg == 2
\* how many files other programs delete during one scan
MaxDeletes == 1
\* how many tasks one context holds
MaxTasks == 2
\* how far the logical clock runs in SpecCtx
MaxClock == 4
\* how many directories lie between "/" and the scored file's directory
MaxPad == 8
\* how many times the interactive loop calls input()
MaxTurns == 3
\* how many blocks the shaped contents of SpecNesting nest or repeat
MaxDepth == 7
\* how long the unshaped contents of SpecNesting are
MaxShort == 2

-----------------------------------------------------------------------------
(* Strings, as Python's str methods compute them *)

\* k in s
Contains(s, k) ==
    \E i \in 1..(Len(s) - Len(k) + 1) : SubSeq(s, i, i + Len(k) - 1) = k

\* s.endswith(k)
EndsWith(s, k) ==
    Len(k) <= Len(s) /\ SubSeq(s, Len(s) - Len(k) + 1, Len(s)) = k

LowerChar(c) ==
    CASE c = "A" -> "a" [] c = "B" -> "b" [] c = "C" -> "c" [] c = "D" -> "d"
      [] c = "E" -> "e" [] c = "F" -> "f" [] c = "G" -> "g" [] c = "H" -> "h"
      [] c = "I" -> "i" [] c = "J" -> "j" [] c = "K" -> "k" [] c = "L" -> "l"
      [] c = "M" -> "m" [] c = "N" -> "n" [] c = "O" -> "o" [] c = "P" -> "p"
      [] c = "Q" -> "q" [] c = "R" -> "r" [] c = "S" -> "s" [] c = "T" -> "t"
      [] c = "U" -> "u" [] c = "V" -> "v" [] c = "W" -> "w" [] c = "X" -> "x"
      [] c = "Y" -> "y" [] c = "Z" -> "z" [] OTHER -> c

\* s.lower()
RECURSIVE Lower(_)
Lower(s) ==
    IF s = "" THEN ""
    ELSE LowerChar(SubSeq(s, 1, 1)) \o Lower(SubSeq(s, 2, Len(s)))

\* the index of the last "." of s, 0 when it has none
LastDot(s) ==
    LET dots == {i \in 1..Len(s) : SubSeq(s, i, i) = "."}
    IN  IF dots = {} THEN 0 ELSE CHOOSE i \in dots : \A j \in dots : j <= i

\* PurePath.suffix: the last dot and what follows it, unless the dot leads
\* or ends the name
Suffix(name) ==
    LET i == LastDot(name)
    IN  IF 1 < i /\ i < Len(name) THEN SubSeq(name, i, Len(name)) ELSE ""

\* fnmatch.fnmatch(name, pattern) on POSIX (case-sensitive), for the patterns
\* the scan is called with: "*" followed by literal text, or literal text
Fnmatch(name, pattern) ==
    IF Len(pattern) >= 1 /\ SubSeq(pattern, 1, 1) = "*"
    THEN EndsWith(name, SubSeq(pattern, 2, Len(pattern)))
    ELSE name = pattern

\* the elements of a sequence
Range(s) == {s[i] : i \in 1..Len(s)}

\* p is a leading part of q (Path.relative_to succeeds)
IsPrefix(p, q) == Len(p) <= Len(q) /\ SubSeq(q, 1, Len(p)) = p

RECURSIVE SumSeq(_)
SumSeq(s) == IF s = <<>> THEN 0 ELSE s[1] + SumSeq(Tail(s))

\* all orderings of a finite set, as sequences
Perms(S) ==
    {s \in [1..Cardinality(S) -> S] : \A i, j \in 1..Cardinality(S) : i # j => s[i] # s[j]}

-----------------------------------------------------------------------------
(* LargeCodebaseConfig *)

MAX_FILE_SIZE_MB == 10
BATCH_SIZE == 50

PRIORITY_EXTENSIONS == {".py", ".js", ".ts", ".java", ".cpp", ".c", ".go", ".rs"}

PRIORITY_DIRS == {"src", "lib", "app", "core", "main", "server", "client", "api"}

SKIP_DIRS ==
    {".git", ".svn", ".hg",
     "node_modules", "venv", "env", ".venv", "virtualenv",
     "__pycache__", ".pytest_cache", ".mypy_cache", ".tox",
     "dist", "build", "target", "out", "bin", "obj",
     ".idea", ".vscode", ".vs", ".eclipse",
     "coverage", "htmlcov", ".coverage",
     "logs", "log", "tmp", "temp", "cache",
     "vendor", "third_party", "external", "deps",
     "test_data", "fixtures", "mock_data", "data"}

\* the size ceiling in bytes
SizeCeiling == MAX_FILE_SIZE_MB * 1024 * 1024

\* include_patterns, at its default, split at the commas
DefaultPatterns == <<"*.py", "*.js", "*.ts", "*.java", "*.cpp", "*.c", "*.go", "*.rs">>

-----------------------------------------------------------------------------
(* _calculate_file_priority and _is_test_file; a path is the sequence of    *)
(* its parts, "/" first for an absolute path                                *)

EntryKeywords == {"main", "index", "app", "server", "client", "core"}
ConfigKeywords == {"config", "setting", "constant"}
SecurityKeywords == {"auth", "login", "password", "token", "security", "crypto"}

DirBonus(path) ==
    SumSeq([i \in 1..Len(path) |-> IF Lower(path[i]) \in PRIORITY_DIRS THEN 3 ELSE 0])

ExtBonus(path) ==
    LET ext == Lower(Suffix(path[Len(path)]))
    IN  IF ext \in PRIORITY_EXTENSIONS THEN 5
        ELSE IF ext \in {".json", ".yaml", ".yml", ".toml", ".ini"} THEN 2
        ELSE IF ext \in {".md", ".txt", ".rst"} THEN 1
        ELSE 0

NameBonus(path) ==
    LET name == Lower(path[Len(path)])
    IN  IF \E k \in EntryKeywords : Contains(name, k) THEN 3
        ELSE IF \E k \in ConfigKeywords : Contains(name, k) THEN 2
        ELSE 0

SecurityBonus(path) ==
    LET name == Lower(path[Len(path)])
    IN  IF \E k \in SecurityKeywords : Contains(name, k) THEN 10 ELSE 0

\* DepthPenalty that starts at 6 parts
DepthPenaltyFromSix(path) == IF Len(path) >= 6 THEN Len(path) - 5 ELSE 0

DepthPenalty(path) == IF Len(path) > 6 THEN Len(path) - 6 ELSE 0

Max(a, b) == IF a >= b THEN a ELSE b
Min(a, b) == IF a <= b THEN a ELSE b

\* _calculate_file_priority without the floor at 0
_calculate_file_priorityUnfloored(path) ==
    1 + DirBonus(path) + ExtBonus(path) + NameBonus(path)
      + SecurityBonus(path) - DepthPenalty(path)

\* _calculate_file_priority where a security keyword sets the score to 10
_calculate_file_prioritySecurityFixed(path) ==
    IF SecurityBonus(path) > 0 THEN 10
    ELSE Max(1 + DirBonus(path) + ExtBonus(path) + NameBonus(path) - DepthPenalty(path), 0)

_calculate_file_priority(path) ==
    Max(1 + DirBonus(path) + ExtBonus(path) + NameBonus(path)
          + SecurityBonus(path) - DepthPenalty(path), 0)

TestIndicators ==
    {"test_", "_test", "tests", "spec_", "_spec",
     "mock_", "_mock", "fixture", "e2e_", "integration_"}

TestParents == {"test", "tests", "spec", "specs", "__tests__", "e2e", "integration"}

\* path.parent.name: the part before the last; "" for the root "/"
ParentName(path) ==
    IF Len(path) >= 2 /\ path[Len(path) - 1] # "/" THEN path[Len(path) - 1] ELSE ""

_is_test_file(path) ==
    LET name == Lower(path[Len(path)])
        parent == Lower(ParentName(path))
    IN  \/ \E ind \in TestIndicators : Contains(name, ind)
        \/ \E ind \in TestIndicators : Contains(parent, ind)
        \/ parent \in TestParents

-----------------------------------------------------------------------------
(* The directory tree.  A file is its directory relative to the scan root,  *)
(* its name, its size in bytes and what the scan's regular expressions      *)
(* find in its content.                                                     *)

CleanContent ==
    [lines |-> 50, security |-> <<>>, performance |-> <<>>,
     functions |-> 3, max_nesting |-> 2, todos |-> 0]

SecretContent ==
    [lines |-> 80, security |-> <<"Hardcoded password detected">>, performance |-> <<>>,
     functions |-> 4, max_nesting |-> 3, todos |-> 1]

RiskyContent ==
    [lines |-> 120,
     security |-> <<"Hardcoded password detected", "Hardcoded API key detected",
                    "Dangerous eval() usage", "Dangerous exec() usage">>,
     performance |-> <<>>, functions |-> 5, max_nesting |-> 3, todos |-> 0]

File(dir, name, size, content) ==
    [dir |-> dir, name |-> name, size |-> size, content |-> content]

\* the files a tree is drawn from: a security-named file exactly at the size
\* ceiling, two files that differ only in their directory, a file below a
\* skip-listed directory, a file over the ceiling, a test file and a file no
\* include pattern matches
Universe ==
    {File(<<"src">>, "auth.py", SizeCeiling, SecretContent),
     File(<<"src">>, "util.py", 100, CleanContent),
     File(<<"scratch">>, "util.py", 100, CleanContent),
     File(<<"src", "build">>, "token.py", 100, SecretContent),
     File(<<"src">>, "login.py", SizeCeiling + 1, CleanContent),
     File(<<"tests">>, "helpers.py", 100, CleanContent),
     File(<<>>, "README.md", 100, CleanContent)}

Trees == {t \in SUBSET Universe : Cardinality(t) <= MaxTreeFiles}

ShallowRoot == <<"/", "proj">>
DeepRoot == <<"/", "home", "dev", "w", "x", "y", "z", "repos", "org", "proj">>

\* where the scan root and the process's working directory are
Locations ==
    {[directory |-> ShallowRoot, cwd |-> ShallowRoot],
     [directory |-> ShallowRoot, cwd |-> <<"/", "other">>],
     [directory |-> DeepRoot, cwd |-> DeepRoot]}

\* the directories of a tree, relative to the root (the root is <<>>)
DirsOf(t) == {<<>>} \cup UNION {{SubSeq(f.dir, 1, n) : n \in 0..Len(f.dir)} : f \in t}

\* file_path = root_path / file, absolute
AbsPath(directory, f) == directory \o f.dir \o <<f.name>>

\* some part of the file's directory below the scan root is skip-listed
UnderSkipDir(f) == \E i \in 1..Len(f.dir) : f.dir[i] \in SKIP_DIRS

-----------------------------------------------------------------------------
(* ProjectContext *)

Procs == {1, 2}

\* Python's None, for last_analysis
None == 0

\* an empty dict
EmptyDict == [k \in {} |-> 0]

\* _load_context when the file is absent
DefaultContext ==
    [project_name |-> "proj", language |-> "unknown", framework |-> "unknown",
     last_analysis |-> None, last_full_analysis |-> None,
     total_files |-> 0, analyzed_files |-> 0, issues_found |-> <<>>,
     tasks |-> <<>>, code_metrics |-> EmptyDict, dependencies |-> <<>>,
     git_info |-> EmptyDict, team_notes |-> <<>>, analysis_cache |-> EmptyDict]

\* the file does not exist
Absent == [absent |-> TRUE]

\* d[k] = v, adding the key when d lacks it
Put(d, k, v) == [x \in DOMAIN d \cup {k} |-> IF x = k THEN v ELSE d[x]]

\* a file holding the JSON text of an object
JsonFile(object) == [json |-> object]

\* json.load(f): the object the file holds, keys as they are
_load_context(file) == IF file = Absent THEN DefaultContext ELSE file.json

\* json.dump(self.context, f, indent=2, default=str): the whole object
save_context(c) == JsonFile(c)

-----------------------------------------------------------------------------
(* analyze_codebase_smart, phase 1: discovery *)

NoFile == [none |-> TRUE]

NoOutcome == [kind |-> "none"]

\* the call raised: the exception reaches the caller
Fault(error) == [kind |-> "fault", error |-> error]

IdleScan ==
    [pc |-> "call", stack |-> <<>>, root_path |-> <<>>, files |-> <<>>, cur |-> NoFile,
     walked |-> {}, files_to_analyze |-> <<>>, total_files_found |-> 0,
     selected_files |-> <<>>, batch_size |-> BATCH_SIZE, i |-> 0, j |-> 1,
     analysis_results |-> EmptyDict]

\* os.scandir(top) succeeds; os.walk, with no onerror, passes over a
\* directory it cannot list
CanList(dir) == dir # <<>> \/ rootState = "ok"

\* the loop "for file in files" goes on, or os.walk is resumed
AfterFile(rest) == IF rest = <<>> THEN "walk" ELSE "files"

\* PruneDirs without the filter: every subdirectory is walked
PruneDirsNone(dirs) == dirs

\* dirs[:] = [d for d in dirs if d not in config.SKIP_DIRS]
PruneDirs(dirs) == {d \in dirs : d[Len(d)] \notin SKIP_DIRS}

\* lines 172-184
StartScan ==
    /\ scan.pc = "call"
    /\ scan' = [scan EXCEPT !.pc = "walk", !.stack = <<<<>>>>]
    /\ UNCHANGED <<memory, nest, repl, probe, tree, rootState, deleted, args, cwd, outcome, ctx, disk, now, last>>

\* os.walk yields the next directory: its entries as listed now, in the
\* order the operating system gives them; the pruned subdirectories are
\* walked next, depth first
WalkNext ==
    /\ scan.pc = "walk"
    /\ scan.stack # <<>>
    /\ LET dir == Head(scan.stack)
           here == {f \in tree \ deleted : f.dir = dir}
           subdirs == {d \in DirsOf(tree) : Len(d) = Len(dir) + 1 /\ IsPrefix(dir, d)}
       IN  IF CanList(dir)
           THEN \E files \in Perms(here), dirs \in Perms(PruneDirs(subdirs)) :
                    scan' = [scan EXCEPT !.stack = dirs \o Tail(scan.stack),
                                         !.root_path = dir,
                                         !.walked = @ \cup {dir},
                                         !.files = files,
                                         !.pc = AfterFile(files)]
           ELSE scan' = [scan EXCEPT !.stack = Tail(scan.stack)]
    /\ UNCHANGED <<memory, nest, repl, probe, tree, rootState, deleted, args, cwd, outcome, ctx, disk, now, last>>

\* PassesFilters with the size test left out
PassesFiltersNoSize(f) ==
    /\ \E n \in 1..Len(args.patterns) : Fnmatch(f.name, args.patterns[n])
    /\ f \notin deleted
    /\ ~(args.skip_tests /\ _is_test_file(AbsPath(args.directory, f)))

\* the checks of lines 196-209: the include patterns, the size (the first
\* stat, whose OSError skips the file), the test filter
PassesFilters(f) ==
    /\ \E n \in 1..Len(args.patterns) : Fnmatch(f.name, args.patterns[n])
    /\ f \notin deleted
    /\ ~(f.size > SizeCeiling)
    /\ ~(args.skip_tests /\ _is_test_file(AbsPath(args.directory, f)))

\* lines 192-214: one file of the listing is counted, filtered and scored
DiscoverFile ==
    /\ scan.pc = "files"
    /\ LET f == Head(scan.files)
           rest == Tail(scan.files)
           priority == _calculate_file_priority(AbsPath(args.directory, f))
       IN  IF PassesFilters(f) /\ priority > 0
           THEN scan' = [scan EXCEPT !.total_files_found = @ + 1,
                                     !.files = rest,
                                     !.cur = [file |-> f, priority |-> priority],
                                     !.pc = "record"]
           ELSE scan' = [scan EXCEPT !.total_files_found = @ + 1,
                                     !.files = rest,
                                     !.pc = AfterFile(rest)]
    /\ UNCHANGED <<memory, nest, repl, probe, tree, rootState, deleted, args, cwd, outcome, ctx, disk, now, last>>

\* lines 215-220: the candidate is recorded; its size is read by a second
\* stat, outside any try
RecordCandidate ==
    /\ scan.pc = "record"
    /\ LET f == scan.cur.file
           path == AbsPath(args.directory, f)
       IN  IF f \in deleted
           THEN /\ scan' = [scan EXCEPT !.pc = "done", !.cur = NoFile]
                /\ outcome' = Fault("FileNotFoundError")
           ELSE /\ scan' = [scan EXCEPT
                       !.files_to_analyze = Append(@,
                           [path |-> path, priority |-> scan.cur.priority,
                            size |-> f.size, extension |-> Lower(Suffix(f.name))]),
                       !.cur = NoFile,
                       !.pc = AfterFile(scan.files)]
                /\ UNCHANGED outcome
    /\ UNCHANGED <<memory, nest, repl, probe, tree, rootState, deleted, args, cwd, ctx, disk, now, last>>

\* the files the scan has yet to stat or open: those of the listing in
\* hand, the candidates during phase 1 and the selected files phase 2 has
\* not come to
StillToTouch ==
    {f \in tree :
        \/ \E n \in 1..Len(scan.files) : scan.files[n] = f
        \/ scan.pc = "record" /\ scan.cur.file = f
        \/ /\ scan.pc \in {"walk", "files", "record"}
           /\ \E n \in 1..Len(scan.files_to_analyze) :
                 scan.files_to_analyze[n].path = AbsPath(args.directory, f)
        \/ /\ scan.pc = "analyze"
           /\ \E n \in (scan.i + scan.j)..Len(scan.selected_files) :
                 scan.selected_files[n].path = AbsPath(args.directory, f)}

\* another program removes a file the running scan has yet to stat or open
\* (a file removed after the scan's last use of it changes nothing, and one
\* removed before its directory is listed is a file the tree never had)
DeleteFile ==
    /\ Cardinality(deleted) < MaxDeletes
    /\ \E f \in StillToTouch \ deleted : deleted' = deleted \cup {f}
    /\ UNCHANGED <<memory, nest, repl, probe, tree, rootState, args, cwd, scan, outcome, ctx, disk, now, last>>

-----------------------------------------------------------------------------
(* analyze_codebase_smart, lines 222-238: the selection *)

\* x goes after the entries whose priority is not lower: list.sort with
\* key=priority, reverse=True keeps equal entries in their order
InsertByPriority(sorted, x) ==
    LET before == {k \in 0..Len(sorted) : \A n \in 1..k : sorted[n].priority >= x.priority}
        k == CHOOSE m \in before : \A n \in before : n <= m
    IN  SubSeq(sorted, 1, k) \o <<x>> \o SubSeq(sorted, k + 1, Len(sorted))

\* SortByPriority that leaves the discovery order
SortByPriorityNone(s) == s

RECURSIVE SortByPriority(_)
SortByPriority(s) ==
    IF s = <<>> THEN <<>>
    ELSE InsertByPriority(SortByPriority(SubSeq(s, 1, Len(s) - 1)), s[Len(s)])

\* s[:m]
SliceTo(s, m) ==
    IF m >= 0 THEN SubSeq(s, 1, Min(m, Len(s))) ELSE SubSeq(s, 1, Max(Len(s) + m, 0))

\* files_to_analyze[:max_files]
TakeTop(sorted, max_files) == SliceTo(sorted, max_files)

EmptyResults ==
    [files_analyzed |-> 0, total_lines |-> 0, issues_found |-> <<>>,
     security_issues |-> <<>>, performance_issues |-> <<>>, complexity_issues |-> <<>>,
     languages |-> EmptyDict, file_summaries |-> <<>>]

\* os.walk is exhausted: sort, take the top, start phase 2; with nothing
\* selected neither loop body runs
SelectFiles ==
    /\ scan.pc = "walk"
    /\ scan.stack = <<>>
    /\ LET sorted == SortByPriority(scan.files_to_analyze)
           selected == TakeTop(sorted, args.max_files)
       IN  scan' = [scan EXCEPT !.files_to_analyze = sorted,
                                !.selected_files = selected,
                                !.analysis_results = EmptyResults,
                                !.i = 0, !.j = 1,
                                !.pc = IF selected = <<>> THEN "report" ELSE "analyze"]
    /\ UNCHANGED <<memory, nest, repl, probe, tree, rootState, deleted, args, cwd, outcome, ctx, disk, now, last>>

-----------------------------------------------------------------------------
(* _analyze_file_content and phase 2 *)

Issue(path, msg) == [path |-> path, msg |-> msg]

\* the file of the tree a path names
FileAt(path) == CHOOSE f \in tree : AbsPath(args.directory, f) = path

\* file_path.relative_to(Path.cwd()) raises ValueError for a path not below
\* the working directory
RelativeOk(path) == IsPrefix(cwd, path)

RelativeTo(path, base) == SubSeq(path, Len(base) + 1, Len(path))

\* HighNesting that fires at the threshold itself
HighNestingFromSix(max_nesting) == max_nesting >= 6

\* if max_nesting > 6
HighNesting(max_nesting) == max_nesting > 6

_analyze_file_content(path, content, focus_areas) ==
    LET relative_path == RelativeTo(path, cwd)
        maintain == "complexity" \in focus_areas \/ "maintainability" \in focus_areas
    IN  [security |->
            IF "security" \in focus_areas
            THEN [n \in 1..Len(content.security) |-> Issue(relative_path, content.security[n])]
            ELSE <<>>,
         performance |->
            IF "performance" \in focus_areas
            THEN [n \in 1..Len(content.performance) |-> Issue(relative_path, content.performance[n])]
            ELSE <<>>,
         complexity |->
            IF maintain
            THEN (IF content.lines > 500 THEN <<Issue(relative_path, "Large file")>> ELSE <<>>)
                 \o (IF Suffix(path[Len(path)]) = ".py" /\ content.functions > 20
                     THEN <<Issue(relative_path, "Many functions")>> ELSE <<>>)
                 \o (IF HighNesting(content.max_nesting)
                     THEN <<Issue(relative_path, "High nesting level")>> ELSE <<>>)
            ELSE <<>>,
         general |->
            IF maintain /\ content.todos > 5
            THEN <<Issue(relative_path, "Many TODOs/FIXMEs")>> ELSE <<>>]

\* d[k] = d.get(k, 0) + 1
Bump(d, k) == Put(d, k, (IF k \in DOMAIN d THEN d[k] ELSE 0) + 1)

\* ReadError that also counts the file as analyzed
ReadErrorCounting(results, path, error) ==
    [results EXCEPT !.files_analyzed = @ + 1,
                    !.issues_found =
        Append(@, [path |-> <<"Error reading", path[Len(path)]>>, msg |-> error])]

\* ReadError that swallows the exception without an entry
ReadErrorSilent(results, path, error) == results

\* line 279: the except branch of the per-file try
ReadError(results, path, error) ==
    [results EXCEPT !.issues_found =
        Append(@, [path |-> <<"Error reading", path[Len(path)]>>, msg |-> error])]

\* lines 246-279 for one file of the batch
AnalyzeOne(results, file_info) ==
    LET path == file_info.path
        f == FileAt(path)
        content == f.content
        counted == [results EXCEPT !.files_analyzed = @ + 1,
                                   !.total_lines = @ + content.lines,
                                   !.languages = Bump(@, file_info.extension)]
        file_issues == _analyze_file_content(path, content, args.focus_areas)
        issues_count == Len(file_issues.general) + Len(file_issues.security)
                        + Len(file_issues.performance) + Len(file_issues.complexity)
        folded == [counted EXCEPT
                      !.issues_found = @ \o file_issues.general,
                      !.security_issues = @ \o file_issues.security,
                      !.performance_issues = @ \o file_issues.performance,
                      !.complexity_issues = @ \o file_issues.complexity,
                      !.file_summaries =
                          IF file_info.priority > 8
                          THEN Append(@, [file |-> RelativeTo(path, args.directory),
                                          lines |-> content.lines,
                                          priority |-> file_info.priority,
                                          issues_count |-> issues_count])
                          ELSE @]
    IN  IF f \in deleted THEN ReadError(results, path, "FileNotFoundError")
        ELSE IF ~RelativeOk(path) THEN ReadError(counted, path, "ValueError")
        ELSE folded

\* Batch that takes one file more than the batch size
BatchOverlapping(selected, i, batch_size) ==
    SubSeq(selected, i + 1, Min(i + batch_size + 1, Len(selected)))

\* batch = selected_files[i:i + batch_size]
Batch(selected, i, batch_size) ==
    SubSeq(selected, i + 1, Min(i + batch_size, Len(selected)))

\* the inner loop's next file; the outer loop, range(0, len(selected_files),
\* batch_size), steps by batch_size
AnalyzeFile ==
    /\ scan.pc = "analyze"
    /\ LET n == Len(scan.selected_files)
           batch == Batch(scan.selected_files, scan.i, scan.batch_size)
           lastOfBatch == scan.j = Len(batch)
           lastBatch == scan.i + scan.batch_size >= n
       IN  scan' = [scan EXCEPT
                       !.analysis_results = AnalyzeOne(@, batch[scan.j]),
                       !.j = IF lastOfBatch THEN 1 ELSE @ + 1,
                       !.i = IF lastOfBatch THEN @ + scan.batch_size ELSE @,
                       !.pc = IF lastOfBatch /\ lastBatch THEN "report" ELSE "analyze"]
    /\ UNCHANGED <<memory, nest, repl, probe, tree, rootState, deleted, args, cwd, outcome, ctx, disk, now, last>>

-----------------------------------------------------------------------------
(* phase 3: the report, the context update and the save *)

\* the process that runs the scan
Scanner == 1

\* a / b rounded to the nearest integer (no quotient of the model falls
\* halfway: that takes a divisor with the factor 16)
RoundDiv(a, b) == (2 * a + b) \div (2 * b)

\* coverage_percent as the report prints it with {:.1f}, in tenths of a
\* percent
CoveragePercent(analyzed_files, total_files) ==
    IF total_files > 0 THEN RoundDiv(analyzed_files * 100 * 10, total_files) ELSE 0

\* x goes after the entries whose issues_count is not lower: sorted with
\* reverse=True keeps equal entries in their order
InsertByIssues(sorted, x) ==
    LET before == {k \in 0..Len(sorted) :
                      \A n \in 1..k : sorted[n].issues_count >= x.issues_count}
        k == CHOOSE m \in before : \A n \in before : n <= m
    IN  SubSeq(sorted, 1, k) \o <<x>> \o SubSeq(sorted, k + 1, Len(sorted))

RECURSIVE SortByIssues(_)
SortByIssues(s) ==
    IF s = <<>> THEN <<>>
    ELSE InsertByIssues(SortByIssues(SubSeq(s, 1, Len(s) - 1)), s[Len(s)])

\* the files listed under "Files Needing Attention"
ComplexFiles(file_summaries) ==
    SliceTo(SortByIssues(SelectSeq(file_summaries, LAMBDA s : s.issues_count > 3)), 5)

\* what the report text says
_generate_smart_analysis_report(results, total_files, analyzed_files) ==
    [total_files |-> total_files,
     analyzed_files |-> analyzed_files,
     coverage_percent |-> CoveragePercent(analyzed_files, total_files),
     total_lines |-> results.total_lines,
     security_issues |-> Len(results.security_issues),
     performance_issues |-> Len(results.performance_issues),
     complexity_issues |-> Len(results.complexity_issues),
     general_issues |-> Len(results.issues_found),
     critical_issues |-> SliceTo(results.security_issues, 5),
     complex_files |-> ComplexFiles(results.file_summaries)]

Report(report) == [kind |-> "report", report |-> report]

\* lines 289-298
UpdateContext(c, results, total_files_found, selected, time) ==
    Put(Put(Put(Put(c,
        "last_analysis", time),
        "total_files", total_files_found),
        "analyzed_files", selected),
        "code_metrics",
            [files_analyzed |-> results.files_analyzed,
             total_lines |-> results.total_lines,
             languages |-> results.languages,
             issues_count |-> Len(results.issues_found) + Len(results.security_issues)
                              + Len(results.performance_issues) + Len(results.complexity_issues)])

\* SaveFailed with the exception caught and the report returned
SaveFailedSwallowed(report) == Report(report)

\* what the caller gets when save_context raises: neither save_context nor
\* analyze_codebase_smart has a try around the write
SaveFailed(report) == Fault("OSError")

\* lines 285-301; open(self.context_file, 'w') may raise OSError, which
\* nothing between save_context and the caller catches
FinishScan ==
    /\ scan.pc = "report"
    /\ LET results == scan.analysis_results
           report == _generate_smart_analysis_report(results, scan.total_files_found,
                                                     Len(scan.selected_files))
           updated == UpdateContext(ctx[Scanner], results, scan.total_files_found,
                                    Len(scan.selected_files), now)
       IN  /\ ctx' = [ctx EXCEPT ![Scanner] = updated]
           /\ \/ /\ disk' = save_context(updated)
                 /\ outcome' = Report(report)
              \/ /\ disk' = disk
                 /\ outcome' = SaveFailed(report)
    /\ now' = now + 1
    /\ scan' = [scan EXCEPT !.pc = "done"]
    /\ UNCHANGED <<memory, nest, repl, probe, tree, rootState, deleted, args, cwd, last>>

-----------------------------------------------------------------------------

DefaultFocus == {"security", "performance", "maintainability"}

NoCall == [proc |-> 0, op |-> "none", result |-> "none"]

\* no path is being scored
NoProbe == [pc |-> "none"]

\* main is not running
NoRepl == [pc |-> "none"]

\* no content is being measured
NoNest == [pc |-> "none"]

\* the personal assistant is not running
NoMemory == [pc |-> "none"]

InitScan ==
    /\ rootState \in {"ok", "missing", "unreadable"}
    /\ tree \in Trees
    /\ rootState = "missing" => tree = {}
    /\ deleted = {}
    /\ \E loc \in Locations :
          /\ cwd = loc.cwd
          /\ args \in [directory : {loc.directory},
                       max_files : 0..MaxFilesArg,
                       patterns : {DefaultPatterns},
                       skip_tests : BOOLEAN,
                       focus_areas : {DefaultFocus}]
    /\ scan = IdleScan
    /\ outcome = NoOutcome
    /\ disk = Absent
    /\ ctx = [p \in Procs |-> _load_context(disk)]
    /\ now = 1
    /\ last = NoCall
    /\ repl = NoRepl
    /\ probe = NoProbe
    /\ nest = NoNest
    /\ memory = NoMemory

NextScan ==
    \/ StartScan
    \/ WalkNext
    \/ DiscoverFile
    \/ RecordCandidate
    \/ DeleteFile
    \/ SelectFiles
    \/ AnalyzeFile
    \/ FinishScan

SpecScan == InitScan /\ [][NextScan]_vars

\* the values LargeCodebaseConfig.BATCH_SIZE is given: the shipped one, and
\* values small enough for a selection to span several batches
BatchSizes == {1, 2, BATCH_SIZE}

\* the files a tree of test code is drawn from: a file whose name, whose
\* directory, and whose directory's directory says test, and two that are
\* not test code, with four issues each, one in a priority directory and one
\* not
TestUniverse ==
    {File(<<"src">>, "test_util.py", 100, CleanContent),
     File(<<"tests">>, "helpers.py", 100, CleanContent),
     File(<<"tests", "unit">>, "helpers.py", 100, SecretContent),
     File(<<"src">>, "util.py", 100, RiskyContent),
     File(<<"scripts">>, "helper.py", 100, RiskyContent)}

\* a scan of a tree with test code, called from the scan root or from the
\* directory above it, under a configuration with any of the batch sizes
InitTests ==
    /\ rootState = "ok"
    /\ tree \in {t \in SUBSET TestUniverse : Cardinality(t) <= MaxTreeFiles}
    /\ deleted = {}
    /\ cwd \in {ShallowRoot, <<"/">>}
    /\ args \in [directory : {ShallowRoot},
                 max_files : 0..MaxFilesArg,
                 patterns : {DefaultPatterns},
                 skip_tests : BOOLEAN,
                 focus_areas : {DefaultFocus}]
    /\ \E batch_size \in BatchSizes : scan = [IdleScan EXCEPT !.batch_size = batch_size]
    /\ outcome = NoOutcome
    /\ disk = Absent
    /\ ctx = [p \in Procs |-> _load_context(disk)]
    /\ now = 1
    /\ last = NoCall
    /\ repl = NoRepl
    /\ probe = NoProbe
    /\ nest = NoNest
    /\ memory = NoMemory

SpecTests == InitTests /\ [][NextScan]_vars

-----------------------------------------------------------------------------
(* The task tools and the other tools that write the context (devmate.py,   *)
(* devmate_large.py), called by either of two processes.  A process loaded  *)
(* the file once, when its module-level ProjectContext was constructed.     *)

\* the string arguments the tools are called with
Titles == {"fix login"}
Priorities == {"low", "urgent"}

\* update_task_status is called with a documented status and no note, or
\* with a string outside the documented values and a note
StatusUpdates ==
    {[status |-> "done", notes |-> ""], [status |-> "finished", notes |-> "n"]}

Without(d, k) == [x \in DOMAIN d \ {k} |-> d[x]]

\* what the context file may hold when the processes start: nothing, or an
\* object an older version or another tool wrote, with keys missing
InitialFiles ==
    {Absent,
     JsonFile(Without(DefaultContext, "tasks")),
     JsonFile(Without(DefaultContext, "project_name")),
     JsonFile(EmptyDict)}

Call(p, op, result) == [proc |-> p, op |-> op, result |-> result]

\* WriteFile that keeps the tasks of the old file which the context lacks
WriteFileMerging(old, c) ==
    IF old # Absent /\ "tasks" \in DOMAIN old.json /\ "tasks" \in DOMAIN c
    THEN JsonFile([c EXCEPT !.tasks = @ \o SelectSeq(old.json.tasks,
                LAMBDA t : \A n \in 1..Len(c.tasks) : c.tasks[n].created # t.created)])
    ELSE JsonFile(c)

\* WriteFile that opens the file for appending: the new text follows the old
WriteFileAppending(old, c) ==
    IF old = Absent THEN JsonFile(c) ELSE [json |-> c, after |-> old]

\* with open(self.context_file, 'w') as f: json.dump(...): the old content
\* is truncated away and the whole context written
WriteFile(old, c) == save_context(c)

\* NewTask that numbers from 0
NewTaskFromZero(tasks, title, priority, category, time) ==
    [id |-> Len(tasks),
     title |-> title, priority |-> priority,
     category |-> category, status |-> "todo", created |-> time]

\* add_dev_task, devmate.py 467-493 and devmate_large.py 527-543
NewTask(tasks, title, priority, category, time) ==
    [id |-> Len(tasks) + 1, title |-> title, priority |-> priority,
     category |-> category, status |-> "todo", created |-> time]

add_dev_task(p) ==
    /\ now < MaxClock
    /\ \E title \in Titles, priority \in Priorities :
          IF "tasks" \notin DOMAIN ctx[p]
          THEN /\ last' = Call(p, "add_dev_task", "KeyError")
               /\ UNCHANGED <<ctx, disk, now>>
          ELSE /\ Len(ctx[p].tasks) < MaxTasks
               /\ LET task == NewTask(ctx[p].tasks, title, priority, "general", now)
                      c == [ctx[p] EXCEPT !.tasks = Append(@, task)]
                  IN  /\ ctx' = [ctx EXCEPT ![p] = c]
                      /\ disk' = WriteFile(disk, c)
               /\ now' = now + 1
               /\ last' = Call(p, "add_dev_task", "ok")
    /\ UNCHANGED <<memory, nest, repl, probe, tree, rootState, deleted, args, cwd, scan, outcome>>

\* priority_order.get(t["priority"], 4), t["created"]
PriorityOrder(priority) ==
    CASE priority = "urgent" -> 0 [] priority = "high" -> 1
      [] priority = "medium" -> 2 [] priority = "low" -> 3 [] OTHER -> 4

KeyLeq(a, b) ==
    \/ PriorityOrder(a.priority) < PriorityOrder(b.priority)
    \/ PriorityOrder(a.priority) = PriorityOrder(b.priority) /\ a.created <= b.created

\* tasks.sort(key=...): ascending, equal keys in their order
InsertByKey(sorted, x) ==
    LET before == {k \in 0..Len(sorted) : \A n \in 1..k : KeyLeq(sorted[n], x)}
        k == CHOOSE m \in before : \A n \in before : n <= m
    IN  SubSeq(sorted, 1, k) \o <<x>> \o SubSeq(sorted, k + 1, Len(sorted))

RECURSIVE SortTasks(_)
SortTasks(s) ==
    IF s = <<>> THEN <<>>
    ELSE InsertByKey(SortTasks(SubSeq(s, 1, Len(s) - 1)), s[Len(s)])

\* what list_dev_tasks leaves in context["tasks"]: with both filters "all",
\* tasks is the context's own list and tasks.sort sorts it in place; a
\* filter makes a new list, and an empty list returns before the sort
TasksAfterListing(tasks, status, category) ==
    IF status = "all" /\ category = "all" /\ tasks # <<>> THEN SortTasks(tasks) ELSE tasks

\* list_dev_tasks, devmate.py 496-534: no save_context
list_dev_tasks(p) ==
    /\ \E status \in {"all", "todo"}, category \in {"all", "general"} :
          IF "tasks" \notin DOMAIN ctx[p]
          THEN /\ last' = Call(p, "list_dev_tasks", "KeyError")
               /\ UNCHANGED ctx
          ELSE /\ ctx' = [ctx EXCEPT ![p].tasks = TasksAfterListing(@, status, category)]
               /\ last' = Call(p, "list_dev_tasks", "ok")
    /\ UNCHANGED <<memory, nest, repl, probe, tree, rootState, deleted, args, cwd, scan, outcome, disk, now>>

\* FirstWithId that goes on to the last task with the id
LastWithId(tasks, task_id) ==
    LET hits == {n \in 1..Len(tasks) : tasks[n].id = task_id}
    IN  IF hits = {} THEN 0 ELSE CHOOSE n \in hits : \A m \in hits : n >= m

\* the first task with the id, 0 when there is none: the loops of
\* update_task_status and complete_task return at the first match
FirstWithId(tasks, task_id) ==
    LET hits == {n \in 1..Len(tasks) : tasks[n].id = task_id}
    IN  IF hits = {} THEN 0 ELSE CHOOSE n \in hits : \A m \in hits : n <= m

\* lines 551-561 on the task found
UpdatedTask(task, status, notes, time) ==
    LET t == Put(Put(task, "status", status), "last_updated", time)
    IN  IF notes # ""
        THEN Put(t, "notes",
                 Append(IF "notes" \in DOMAIN task THEN task.notes ELSE <<>>,
                        [timestamp |-> time, note |-> notes]))
        ELSE t

\* update_task_status, devmate.py 537-566
update_task_status(p) ==
    /\ \E task_id \in 1..(MaxTasks + 1), update \in StatusUpdates :
          IF "tasks" \notin DOMAIN ctx[p]
          THEN /\ last' = Call(p, "update_task_status", "KeyError")
               /\ UNCHANGED <<ctx, disk, now>>
          ELSE LET n == FirstWithId(ctx[p].tasks, task_id)
               IN  IF n = 0
                   THEN /\ last' = Call(p, "update_task_status", "not found")
                        /\ UNCHANGED <<ctx, disk, now>>
                   ELSE /\ now < MaxClock
                        /\ LET c == [ctx[p] EXCEPT
                                       !.tasks[n] = UpdatedTask(@, update.status, update.notes, now)]
                           IN  /\ ctx' = [ctx EXCEPT ![p] = c]
                               /\ disk' = WriteFile(disk, c)
                        /\ now' = now + 1
                        /\ last' = Call(p, "update_task_status", "ok")
    /\ UNCHANGED <<memory, nest, repl, probe, tree, rootState, deleted, args, cwd, scan, outcome>>

\* git_status_summary, devmate.py 300-380: git's answers are inputs
git_status_summary(p) ==
    /\ now < MaxClock
    /\ \E modified \in {1} :
          LET c == Put(ctx[p], "git_info",
                       [current_branch |-> "main", modified_files |-> modified,
                        added_files |-> 0, deleted_files |-> 0, untracked_files |-> 0,
                        last_check |-> now])
          IN  /\ ctx' = [ctx EXCEPT ![p] = c]
              /\ disk' = WriteFile(disk, c)
    /\ now' = now + 1
    /\ last' = Call(p, "git_status_summary", "ok")
    /\ UNCHANGED <<memory, nest, repl, probe, tree, rootState, deleted, args, cwd, scan, outcome>>

\* analyze_codebase, devmate.py 85-185: what the walk found is an input
analyze_codebase(p) ==
    /\ now < MaxClock
    /\ \E found \in {1} :
          LET c == Put(Put(Put(ctx[p],
                       "last_analysis", now),
                       "code_metrics", [total_files |-> found, total_lines |-> 50 * found,
                                        total_functions |-> 3 * found,
                                        languages |-> IF found = 0 THEN EmptyDict
                                                      ELSE Bump(EmptyDict, ".py")]),
                       "issues_found", <<>>)
          IN  /\ ctx' = [ctx EXCEPT ![p] = c]
              /\ disk' = WriteFile(disk, c)
    /\ now' = now + 1
    /\ last' = Call(p, "analyze_codebase", "ok")
    /\ UNCHANGED <<memory, nest, repl, probe, tree, rootState, deleted, args, cwd, scan, outcome>>

\* what a scan may have found, as SpecScan computes it
ScanResults ==
    {[results |-> [EmptyResults EXCEPT !.files_analyzed = 1, !.total_lines = 50,
                                       !.languages = Bump(EmptyDict, ".py")],
      total |-> 2, selected |-> 1]}

\* analyze_codebase_smart, lines 288-301, on the context of process p
analyze_codebase_smart(p) ==
    /\ now < MaxClock
    /\ \E r \in ScanResults :
          LET c == UpdateContext(ctx[p], r.results, r.total, r.selected, now)
          IN  /\ ctx' = [ctx EXCEPT ![p] = c]
              /\ disk' = WriteFile(disk, c)
    /\ now' = now + 1
    /\ last' = Call(p, "analyze_codebase_smart", "ok")
    /\ UNCHANGED <<memory, nest, repl, probe, tree, rootState, deleted, args, cwd, scan, outcome>>

\* EnhancedDevMate.chat, devmate_large.py 613-625: the prompt reads
\* context['project_name'] and context['tasks']
chat(p) ==
    /\ last' = Call(p, "chat",
                    IF {"project_name", "tasks"} \subseteq DOMAIN ctx[p]
                    THEN "ok" ELSE "KeyError")
    /\ UNCHANGED <<memory, nest, repl, probe, tree, rootState, deleted, args, cwd, scan, outcome, ctx, disk, now>>

InitCtx ==
    /\ disk \in InitialFiles
    /\ ctx = [p \in Procs |-> _load_context(disk)]
    /\ now = 1
    /\ last = NoCall
    /\ repl = NoRepl
    /\ probe = NoProbe
    /\ nest = NoNest
    /\ memory = NoMemory
    /\ tree = {}
    /\ rootState = "ok"
    /\ deleted = {}
    /\ args = [directory |-> ShallowRoot, max_files |-> 0, patterns |-> DefaultPatterns,
               skip_tests |-> TRUE, focus_areas |-> DefaultFocus]
    /\ cwd = ShallowRoot
    /\ scan = IdleScan
    /\ outcome = NoOutcome

NextCtx ==
    \E p \in Procs :
        \/ add_dev_task(p)
        \/ list_dev_tasks(p)
        \/ update_task_status(p)
        \/ git_status_summary(p)
        \/ analyze_codebase(p)
        \/ analyze_codebase_smart(p)
        \/ chat(p)

SpecCtx == InitCtx /\ [][NextCtx]_vars

-----------------------------------------------------------------------------
(* The task tools of devmate.py next to those of the personal assistant,   *)
(* personal-assistant/main.py.  The assistant is one process; its memory   *)
(* file is assistant_memory.json.                                          *)

\* _load_memory, lines 39-56: the dictionary of a first start
DefaultMemory ==
    [user_profile |-> [name |-> None, preferences |-> EmptyDict, timezone |-> "UTC",
                       interests |-> <<>>],
     conversation_history |-> <<>>, tasks |-> <<>>, notes |-> <<>>,
     facts_learned |-> EmptyDict]

_load_memory(file) == IF file = Absent THEN DefaultMemory ELSE file.json

\* save_memory, lines 58-61
save_memory(m) == JsonFile(m)

\* task_item of add_task_reminder, lines 147-154
TaskItem(tasks, task, due_date, priority, time) ==
    [id |-> Len(tasks) + 1, task |-> task, due_date |-> due_date, priority |-> priority,
     created |-> time, completed |-> FALSE]

\* two tasks with the same id, as a file put together from two lists has
TwoTasksOneId ==
    <<NewTask(<<>>, "fix login", "low", "general", 0),
      NewTask(<<>>, "fix login", "urgent", "general", 0)>>
TwoRemindersOneId ==
    <<TaskItem(<<>>, "call", None, "medium", 0),
      TaskItem(<<>>, "pay", None, "high", 0)>>

\* what the two files may hold when the programs start
ContextFiles == {Absent, JsonFile([DefaultContext EXCEPT !.tasks = TwoTasksOneId])}
MemoryFiles == {Absent, JsonFile([DefaultMemory EXCEPT !.tasks = TwoRemindersOneId])}

\* the assistant after a call
Assistant(m, file, op, task_id, result) ==
    [pc |-> "running", memory |-> m, file |-> file,
     call |-> [op |-> op, task_id |-> task_id, result |-> result]]

\* add_task_reminder, lines 137-159
add_task_reminder ==
    /\ now < MaxClock
    /\ Len(memory.memory.tasks) < MaxTasks
    /\ \E task \in {"call"}, due_date \in {None}, priority \in {"medium"} :
          LET m == [memory.memory EXCEPT
                       !.tasks = Append(@, TaskItem(@, task, due_date, priority, now))]
          IN  memory' = Assistant(m, save_memory(m), "add_task_reminder", None, "ok")
    /\ now' = now + 1
    /\ UNCHANGED <<nest, repl, probe, tree, rootState, deleted, args, cwd, scan, outcome, ctx, disk, last>>

\* complete_task, lines 186-202
complete_task ==
    /\ \E task_id \in 1..(MaxTasks + 1) :
          LET n == FirstWithId(memory.memory.tasks, task_id)
          IN  IF n = 0
              THEN /\ memory' = Assistant(memory.memory, memory.file,
                                          "complete_task", task_id, "not found")
                   /\ UNCHANGED now
              ELSE /\ now < MaxClock
                   /\ LET m == [memory.memory EXCEPT
                                   !.tasks[n] = Put(Put(@, "completed", TRUE),
                                                    "completed_date", now)]
                      IN  memory' = Assistant(m, save_memory(m),
                                              "complete_task", task_id, "ok")
                   /\ now' = now + 1
    /\ UNCHANGED <<nest, repl, probe, tree, rootState, deleted, args, cwd, scan, outcome, ctx, disk, last>>

InitTasks ==
    /\ disk \in ContextFiles
    /\ ctx = [p \in Procs |-> _load_context(disk)]
    /\ \E file \in MemoryFiles :
          memory = Assistant(_load_memory(file), file, "none", None, "none")
    /\ now = 1
    /\ last = NoCall
    /\ repl = NoRepl
    /\ probe = NoProbe
    /\ nest = NoNest
    /\ tree = {}
    /\ rootState = "ok"
    /\ deleted = {}
    /\ args = [directory |-> ShallowRoot, max_files |-> 0, patterns |-> DefaultPatterns,
               skip_tests |-> TRUE, focus_areas |-> DefaultFocus]
    /\ cwd = ShallowRoot
    /\ scan = IdleScan
    /\ outcome = NoOutcome

NextTasks ==
    \/ \E p \in Procs :
          \/ add_dev_task(p)
          \/ update_task_status(p)
    \/ add_task_reminder
    \/ complete_task

SpecTasks == InitTasks /\ [][NextTasks]_vars

-----------------------------------------------------------------------------
(* ProjectContext.save_context called on its own, between calls of the      *)
(* task tools                                                               *)

\* project_ctx.save_context(), devmate_large.py 85-88; the call is noted as
\* "again" when the call before it was a save of the same process
SaveContext(p) ==
    /\ disk' = WriteFile(disk, ctx[p])
    /\ last' = Call(p, "save_context",
                    IF last.proc = p /\ last.op = "save_context" THEN "again" ELSE "ok")
    /\ UNCHANGED <<memory, nest, repl, probe, tree, rootState, deleted, args, cwd, scan, outcome, ctx, now>>

NextSave ==
    \E p \in Procs :
        \/ add_dev_task(p)
        \/ list_dev_tasks(p)
        \/ SaveContext(p)

SpecSave == InitCtx /\ [][NextSave]_vars

-----------------------------------------------------------------------------
(* main, devmate_large.py 666-704: the interactive loop.  The same loop,    *)
(* with other quick commands, is in devmate.py 888-927 and                  *)
(* personal-assistant/main.py 397-422.                                      *)

\* s.strip(), for the blanks the inputs have
RECURSIVE Strip(_)
Strip(s) ==
    IF s = "" THEN ""
    ELSE IF SubSeq(s, 1, 1) = " " THEN Strip(SubSeq(s, 2, Len(s)))
    ELSE IF SubSeq(s, Len(s), Len(s)) = " " THEN Strip(SubSeq(s, 1, Len(s) - 1))
    ELSE s

QuitWords == {"quit", "exit", "bye"}

\* the quick commands that stand for a prompt
Expand(user_input) ==
    CASE Lower(user_input) = "analyze" ->
             "Run smart codebase analysis focusing on the most important files"
      [] Lower(user_input) = "security" -> "Run a quick security scan of the codebase"
      [] Lower(user_input) = "performance" -> "Check for performance issues in the codebase"
      [] Lower(user_input) = "tasks" -> "Show me the current development tasks"
      [] Lower(user_input) = "git" -> "Give me a git status summary"
      [] OTHER -> user_input

\* what the user types
Lines == {"quit", "Exit", " bye ", "analyze", "context", "", " ", "fix the login bug"}

\* what input() raises instead of returning a line: Ctrl-C, end of input
InputErrors == {"KeyboardInterrupt", "EOFError"}

\* what self.agent(full_prompt) does: it returns, the model call fails, or
\* the user interrupts it
AgentResults == {"response", "ConnectionError", "KeyboardInterrupt"}

\* the process main runs in
Interactive == 1

\* the loop is at input()
AtInput == [pc |-> "input", turn |-> 0, line |-> "", user_input |-> "",
            raised |-> "none", printed |-> "banner", errors |-> 0]

\* OnException with a handler that leaves the loop on every exception
OnExceptionBreak(r, error) ==
    [r EXCEPT !.raised = error, !.printed = "farewell", !.pc = "ended"]

\* the except clauses of lines 699-704: KeyboardInterrupt prints the farewell
\* and breaks; any other Exception prints the error and the loop goes on
OnException(r, error) ==
    IF error = "KeyboardInterrupt"
    THEN [r EXCEPT !.raised = error, !.printed = "farewell", !.pc = "ended"]
    ELSE [r EXCEPT !.raised = error, !.printed = "error", !.errors = @ + 1,
                   !.pc = "input"]

\* lines 668-693: input() and the commands handled without the assistant
ReadInput ==
    /\ repl.pc = "input"
    /\ repl.turn < MaxTurns
    /\ LET r == [repl EXCEPT !.turn = @ + 1, !.raised = "none"]
       IN  \/ \E error \in InputErrors : repl' = OnException(r, error)
           \/ \E line \in Lines :
                 LET user_input == Strip(line)
                     read == [r EXCEPT !.line = line, !.user_input = user_input]
                 IN  IF Lower(user_input) \in QuitWords
                     THEN repl' = [read EXCEPT !.printed = "farewell", !.pc = "ended"]
                     ELSE IF Lower(user_input) = "context"
                     THEN repl' = [read EXCEPT !.printed = "context"]
                     ELSE IF Expand(user_input) = ""
                     THEN repl' = read
                     ELSE repl' = [read EXCEPT !.user_input = Expand(user_input),
                                               !.pc = "chat"]
    /\ UNCHANGED <<memory, nest, probe, tree, rootState, deleted, args, cwd, scan, outcome, ctx, disk, now, last>>

\* lines 695-697: assistant.chat(user_input), whose prompt reads
\* context['project_name'] and context['tasks'] (lines 613-625)
Chat ==
    /\ repl.pc = "chat"
    /\ IF ~({"project_name", "tasks"} \subseteq DOMAIN ctx[Interactive])
       THEN repl' = OnException(repl, "KeyError")
       ELSE \E result \in AgentResults :
               IF result = "response"
               THEN repl' = [repl EXCEPT !.printed = "response", !.pc = "input"]
               ELSE repl' = OnException(repl, result)
    /\ UNCHANGED <<memory, nest, probe, tree, rootState, deleted, args, cwd, scan, outcome, ctx, disk, now, last>>

InitRepl ==
    /\ disk \in InitialFiles
    /\ ctx = [p \in Procs |-> _load_context(disk)]
    /\ repl = AtInput
    /\ now = 1
    /\ last = NoCall
    /\ probe = NoProbe
    /\ nest = NoNest
    /\ memory = NoMemory
    /\ tree = {}
    /\ rootState = "ok"
    /\ deleted = {}
    /\ args = [directory |-> ShallowRoot, max_files |-> 0, patterns |-> DefaultPatterns,
               skip_tests |-> TRUE, focus_areas |-> DefaultFocus]
    /\ cwd = ShallowRoot
    /\ scan = IdleScan
    /\ outcome = NoOutcome

NextRepl ==
    \/ ReadInput
    \/ Chat

SpecRepl == InitRepl /\ [][NextRepl]_vars

-----------------------------------------------------------------------------
(* _calculate_file_priority on its own: a path is scored, its file name is  *)
(* given a security keyword, and the new path is scored                     *)

\* the directory of the scored file, below the padding
ProbeDirs == {<<"scratch">>, <<"src">>, <<"src", "api">>, <<"src", "api", "core">>, <<"Lib">>}

\* file names without the extension: plain, with an entry-point keyword, a
\* configuration keyword, both, and a security keyword
ProbeStems == {"util", "main", "config", "app_config", "auth"}

ProbeExts == {".py", ".json", ".md", ""}

\* n directories named d
Pad(n) == [k \in 1..n |-> "d"]

ProbePaths ==
    {<<"/">> \o Pad(n) \o dir \o <<stem \o ext>> :
        n \in 0..MaxPad, dir \in ProbeDirs, stem \in ProbeStems, ext \in ProbeExts}

\* the name with the keyword put before it, or between it and its extension
WithKeyword(name, keyword, where) ==
    LET ext == Suffix(name)
        stem == SubSeq(name, 1, Len(name) - Len(ext))
    IN  IF where = "front" THEN keyword \o name ELSE stem \o keyword \o ext

\* the path with its last part renamed
Renamed(path, name) == SubSeq(path, 1, Len(path) - 1) \o <<name>>

Unscored(path, before) == [pc |-> "path", path |-> path, before |-> before]

\* priority = _calculate_file_priority(file_path, config), line 212
ScorePath ==
    /\ probe.pc = "path"
    /\ probe' = [pc |-> "scored", path |-> probe.path,
                 priority |-> _calculate_file_priority(probe.path),
                 before |-> probe.before]
    /\ UNCHANGED <<memory, nest, repl, tree, rootState, deleted, args, cwd, scan, outcome, ctx, disk, now, last>>

\* the scored file is renamed to carry a security keyword and is to be
\* scored again; the first score is kept for comparison
AddSecurityKeyword ==
    /\ probe.pc = "scored"
    /\ probe.before = NoProbe
    /\ \E keyword \in SecurityKeywords, where \in {"front", "back"} :
          probe' = Unscored(
              Renamed(probe.path, WithKeyword(probe.path[Len(probe.path)], keyword, where)),
              [path |-> probe.path, priority |-> probe.priority])
    /\ UNCHANGED <<memory, nest, repl, tree, rootState, deleted, args, cwd, scan, outcome, ctx, disk, now, last>>

InitPriority ==
    /\ probe \in {Unscored(path, NoProbe) : path \in ProbePaths}
    /\ tree = {}
    /\ rootState = "ok"
    /\ deleted = {}
    /\ args = [directory |-> ShallowRoot, max_files |-> 0, patterns |-> DefaultPatterns,
               skip_tests |-> TRUE, focus_areas |-> DefaultFocus]
    /\ cwd = ShallowRoot
    /\ scan = IdleScan
    /\ outcome = NoOutcome
    /\ disk = Absent
    /\ ctx = [p \in Procs |-> _load_context(disk)]
    /\ now = 1
    /\ last = NoCall
    /\ repl = NoRepl
    /\ nest = NoNest
    /\ memory = NoMemory

NextPriority ==
    \/ ScorePath
    \/ AddSecurityKeyword

SpecPriority == InitPriority /\ [][NextPriority]_vars

-----------------------------------------------------------------------------
(* The nesting level check of _analyze_file_content, line by line.  One     *)
(* step is one pass of the loop over content.splitlines().                  *)

\* line.count(c), c one character
RECURSIVE CountChar(_, _)
CountChar(line, c) ==
    IF line = "" THEN 0
    ELSE (IF SubSeq(line, 1, 1) = c THEN 1 ELSE 0) + CountChar(SubSeq(line, 2, Len(line)), c)

NestingKeywords == {"if ", "for ", "while ", "try:", "with "}

\* any(keyword in stripped for keyword in [...])
HasNestingKeyword(line) == \E keyword \in NestingKeywords : Contains(Strip(line), keyword)

\* what a line with a keyword adds to current_nesting
NestingIncrement(line) ==
    CountChar(line, "{")
        + (IF CountChar(line, "{") = 0 /\ EndsWith(Strip(line), ":") THEN 1 ELSE 0)

\* the body of the loop, on the pair of counters
NestingLoopBody(counters, line) ==
    LET opened == IF HasNestingKeyword(line)
                  THEN counters.current_nesting + NestingIncrement(line)
                  ELSE counters.current_nesting
        peak == IF HasNestingKeyword(line)
                THEN Max(counters.max_nesting, opened)
                ELSE counters.max_nesting
    IN  [current_nesting |-> Max(0, opened - CountChar(line, "}")),
         max_nesting |-> peak]

\* n copies of a line
RECURSIVE Repeat(_, _)
Repeat(lines, n) == IF n = 0 THEN <<>> ELSE lines \o Repeat(lines, n - 1)

\* n spaces of indentation before a line
RECURSIVE Indent(_, _)
Indent(n, line) == IF n = 0 THEN line ELSE Indent(n - 1, "  " \o line)

\* n if blocks inside one another, indented
RECURSIVE NestedIfs(_, _, _)
NestedIfs(opening, n, depth) ==
    IF n = 0 THEN <<>>
    ELSE [k \in 1..Len(opening) |-> Indent(depth, opening[k])]
            \o NestedIfs(opening, n - 1, depth + 1)

\* the lines the contents are made of
NestingLines ==
    {"if (a) {", "}", "if a:", "x = 1", "if (a)", "{", "} else {", "if (a) { x }",
     "if(a){", "for x in y: "}

\* the contents measured: n if blocks inside one another, with the brace on
\* the line of the if, on the line after it, without a blank after the
\* keyword, and with a colon; n blocks after one another; and every content
\* of at most MaxShort lines
NestingContents ==
    UNION {{NestedIfs(<<"if (a) {">>, n, 0) \o Repeat(<<"}">>, n),
            <<"void f() {">> \o NestedIfs(<<"if (a) {">>, n, 1) \o Repeat(<<"}">>, n + 1),
            NestedIfs(<<"if (a)", "{">>, n, 0) \o Repeat(<<"}">>, n),
            NestedIfs(<<"if(a){">>, n, 0) \o Repeat(<<"}">>, n),
            NestedIfs(<<"if a:">>, n, 0) \o <<Indent(n, "x = 1")>>,
            Repeat(<<"if a:", "  x = 1">>, n),
            Repeat(<<"if (a) { x }">>, n)} : n \in 0..MaxDepth}
    \cup UNION {[1..n -> NestingLines] : n \in 0..MaxShort}

NestingFocus == {{"complexity"}, {"maintainability"}, {"security", "performance"}}

\* at the head of the loop, no line read
Measuring(lines, focus_areas) ==
    [pc |-> "lines", lines |-> lines, focus_areas |-> focus_areas, n |-> 0,
     current_nesting |-> 0, max_nesting |-> 0, complexity |-> <<>>]

\* one pass of the loop
NestingLine ==
    /\ nest.pc = "lines"
    /\ "complexity" \in nest.focus_areas \/ "maintainability" \in nest.focus_areas
    /\ nest.n < Len(nest.lines)
    /\ LET counters == NestingLoopBody([current_nesting |-> nest.current_nesting,
                                        max_nesting |-> nest.max_nesting],
                                       nest.lines[nest.n + 1])
       IN  nest' = [nest EXCEPT !.n = @ + 1,
                                !.current_nesting = counters.current_nesting,
                                !.max_nesting = counters.max_nesting]
    /\ UNCHANGED <<memory, repl, probe, tree, rootState, deleted, args, cwd, scan, outcome, ctx, disk, now, last>>

\* after the loop: the issue, or none
NestingReport ==
    /\ nest.pc = "lines"
    /\ "complexity" \in nest.focus_areas \/ "maintainability" \in nest.focus_areas
    /\ nest.n = Len(nest.lines)
    /\ nest' = [nest EXCEPT !.pc = "done",
                            !.complexity = IF HighNesting(nest.max_nesting)
                                           THEN <<"High nesting level">> ELSE <<>>]
    /\ UNCHANGED <<memory, repl, probe, tree, rootState, deleted, args, cwd, scan, outcome, ctx, disk, now, last>>

\* neither complexity nor maintainability among the focus areas
NestingSkipped ==
    /\ nest.pc = "lines"
    /\ ~("complexity" \in nest.focus_areas \/ "maintainability" \in nest.focus_areas)
    /\ nest' = [nest EXCEPT !.pc = "done"]
    /\ UNCHANGED <<memory, repl, probe, tree, rootState, deleted, args, cwd, scan, outcome, ctx, disk, now, last>>

InitNesting ==
    /\ nest \in {Measuring(lines, focus_areas) :
                     lines \in NestingContents, focus_areas \in NestingFocus}
    /\ tree = {}
    /\ rootState = "ok"
    /\ deleted = {}
    /\ args = [directory |-> ShallowRoot, max_files |-> 0, patterns |-> DefaultPatterns,
               skip_tests |-> TRUE, focus_areas |-> DefaultFocus]
    /\ cwd = ShallowRoot
    /\ scan = IdleScan
    /\ outcome = NoOutcome
    /\ disk = Absent
    /\ ctx = [p \in Procs |-> _load_context(disk)]
    /\ now = 1
    /\ last = NoCall
    /\ repl = NoRepl
    /\ probe = NoProbe
    /\ memory = NoMemory

NextNesting ==
    \/ NestingLine
    \/ NestingReport
    \/ NestingSkipped

SpecNesting == InitNesting /\ [][NextNesting]_vars

-----------------------------------------------------------------------------
(* The properties of the scan, under SpecScan *)

\* the candidates, the selection and the files read so far, as paths
CandidatePaths == {scan.files_to_analyze[n].path : n \in 1..Len(scan.files_to_analyze)}
SelectedPaths == {scan.selected_files[n].path : n \in 1..Len(scan.selected_files)}

\* phase 1 is over and the selection made
Selected == scan.pc \in {"analyze", "report"} \/ (scan.pc = "done" /\ outcome # Fault("FileNotFoundError"))

\* a file that passes the include patterns, the size ceiling and the test
\* filter, in a directory the walk reaches
PassesStaticFilters(f) ==
    /\ \E n \in 1..Len(args.patterns) : Fnmatch(f.name, args.patterns[n])
    /\ f.size <= SizeCeiling
    /\ ~(args.skip_tests /\ _is_test_file(AbsPath(args.directory, f)))
    /\ ~UnderSkipDir(f)

\* C1: no directory below a skip-listed name is ever listed, and no file below
\* one is ever a candidate, under consideration, counted or selected, though
\* its name matches an include pattern
C1_SkipDirsPruned ==
    /\ \A d \in scan.walked : \A n \in 1..Len(d) : d[n] \notin SKIP_DIRS
    /\ \A f \in tree : UnderSkipDir(f) =>
          /\ AbsPath(args.directory, f) \notin CandidatePaths \cup SelectedPaths
          /\ scan.cur # [file |-> f, priority |-> _calculate_file_priority(AbsPath(args.directory, f))]
          /\ \A n \in 1..Len(scan.files) : scan.files[n] # f
    /\ scan.total_files_found <= Cardinality({f \in tree : ~UnderSkipDir(f)})

\* a finished scan of a tree with a matching file below src/build, whose
\* parent src was walked and gave a candidate
C1_Witness ==
    /\ scan.pc = "done"
    /\ outcome.kind = "report"
    /\ <<"src">> \in scan.walked
    /\ scan.files_to_analyze # <<>>
    /\ \E f \in tree : UnderSkipDir(f) /\ Fnmatch(f.name, "*.py") /\ f.size <= SizeCeiling

\* C2 (as claimed): the selection never exceeds max_files, and when fewer
\* than max_files files pass the pattern, size and test filters, all of them
\* are selected
C2_SelectionCap ==
    (Selected /\ rootState = "ok" /\ deleted = {}) =>
        LET passing == {f \in tree : PassesStaticFilters(f)}
        IN  /\ Len(scan.selected_files) <= args.max_files
            /\ Cardinality(passing) < args.max_files =>
                  \A f \in passing : AbsPath(args.directory, f) \in SelectedPaths

\* C3: no selected file is over the size ceiling, and a file exactly at the
\* ceiling that passes the other filters is a candidate
C3_SizeCeiling ==
    /\ \A n \in 1..Len(scan.selected_files) : scan.selected_files[n].size <= SizeCeiling
    /\ \A n \in 1..Len(scan.files_to_analyze) : scan.files_to_analyze[n].size <= SizeCeiling
    /\ (Selected /\ rootState = "ok" /\ deleted = {}) =>
          \A f \in tree :
              (/\ f.size = SizeCeiling
               /\ PassesStaticFilters(f)
               /\ _calculate_file_priority(AbsPath(args.directory, f)) > 0)
              => AbsPath(args.directory, f) \in CandidatePaths

\* a file at the ceiling was selected while a file over the ceiling, of the
\* same priority, was in the tree
C3_Witness ==
    /\ scan.pc = "done"
    /\ \E n \in 1..Len(scan.selected_files) : scan.selected_files[n].size = SizeCeiling
    /\ \E f \in tree : f.size > SizeCeiling /\ ~UnderSkipDir(f)
                       /\ _calculate_file_priority(AbsPath(args.directory, f)) >= 19
    /\ scan.total_files_found >= 2

SrcUtil == File(<<"src">>, "util.py", 100, CleanContent)
ScratchUtil == File(<<"scratch">>, "util.py", 100, CleanContent)

\* C4: every selected file has a priority not below that of any candidate
\* left out; with max_files = 1 and the candidates src/util.py and
\* scratch/util.py, src/util.py is the one selected
C4_TopByPriority ==
    Selected =>
        /\ \A n \in 1..Len(scan.selected_files) : \A m \in 1..Len(scan.files_to_analyze) :
              scan.files_to_analyze[m].path \notin SelectedPaths
              => scan.selected_files[n].priority >= scan.files_to_analyze[m].priority
        /\ SelectedPaths \subseteq CandidatePaths
        /\ (/\ args.max_files = 1
            /\ CandidatePaths = {AbsPath(args.directory, SrcUtil),
                                 AbsPath(args.directory, ScratchUtil)})
           => SelectedPaths = {AbsPath(args.directory, SrcUtil)}

\* the scenario: two candidates, one selected, the other discovered first
C4_Witness ==
    /\ scan.pc = "done"
    /\ args.max_files = 1
    /\ Len(scan.selected_files) = 1
    /\ CandidatePaths = {AbsPath(args.directory, SrcUtil), AbsPath(args.directory, ScratchUtil)}

\* the index, among the selected files, of the file phase 2 takes next
Pos(s) == s.i + s.j

ErrorEntry(path, error) == [path |-> <<"Error reading", path[Len(path)]>>, msg |-> error]

\* C8: a step of phase 2 on a file that cannot be opened appends exactly one
\* general issue entry for it and changes nothing else of the results; every
\* step of phase 2 goes on to the next selected file, the report comes only
\* after the last, and a scan that reached phase 2 returns the report unless
\* the context file cannot be written
C8_ReadFailureAbsorbed ==
    [][/\ (scan.pc = "analyze" /\ scan' # scan) =>
            LET info == scan.selected_files[Pos(scan)]
                res == scan.analysis_results
            IN  /\ outcome' = outcome
                /\ \/ scan'.pc = "analyze" /\ Pos(scan') = Pos(scan) + 1
                   \/ scan'.pc = "report" /\ Pos(scan) = Len(scan.selected_files)
                /\ FileAt(info.path) \in deleted =>
                      scan'.analysis_results =
                          [res EXCEPT !.issues_found =
                              Append(@, ErrorEntry(info.path, "FileNotFoundError"))]
       /\ (scan.pc = "report" /\ scan'.pc = "done") =>
            \/ outcome'.kind = "report"
            \/ outcome' = Fault("OSError") /\ disk' = disk
      ]_vars

\* the first of two selected files was gone when phase 2 came to it; the
\* second was read and the report returned
C8_Witness ==
    /\ scan.pc = "done"
    /\ outcome.kind = "report"
    /\ Len(scan.selected_files) = 2
    /\ scan.analysis_results.issues_found =
           <<ErrorEntry(scan.selected_files[1].path, "FileNotFoundError")>>
    /\ scan.analysis_results.files_analyzed = 1

\* C9 (as claimed): a file that vanishes during discovery is skipped and
\* never makes the scan fail
C9_MetadataErrorSkipped ==
    scan.pc = "done" => outcome # Fault("FileNotFoundError")

\* C10 (as claimed): a scan of a missing or unreadable root ends in a failure
\* and produces no report
C10_BadRootFails ==
    (rootState # "ok" /\ scan.pc = "done") => outcome.kind = "fault"

\* the selected files phase 2 has gone through
Processed == 1..Min(Pos(scan) - 1, Len(scan.selected_files))

\* open() and read() succeeded on the n-th selected file (a file is removed
\* only before the scan comes to it)
Opened(n) == FileAt(scan.selected_files[n].path) \notin deleted

\* C11: throughout phase 2 and after it, files_analyzed is the number of
\* selected files gone through so far whose open and read succeeded, and a
\* step of the scan only appends to each of the four issue collections
C11_CountAndAppendOnly ==
    /\ [](Selected =>
            scan.analysis_results.files_analyzed
                = Cardinality({n \in Processed : Opened(n)}))
    /\ [][Selected =>
            LET old == scan.analysis_results
                new == scan'.analysis_results
            IN  /\ IsPrefix(old.issues_found, new.issues_found)
                /\ IsPrefix(old.security_issues, new.security_issues)
                /\ IsPrefix(old.performance_issues, new.performance_issues)
                /\ IsPrefix(old.complexity_issues, new.complexity_issues)
                /\ new.files_analyzed >= old.files_analyzed
         ]_vars

\* in the middle of phase 2: the first of two selected files was read and
\* gave a security issue, the second is gone and still to come
C11_Witness ==
    /\ scan.pc = "analyze"
    /\ Len(scan.selected_files) = 2
    /\ Pos(scan) = 2
    /\ scan.analysis_results.files_analyzed = 1
    /\ Len(scan.analysis_results.security_issues) = 1
    /\ ~Opened(2)

\* C12 (as claimed): the coverage the report prints is the number of files
\* analyzed, as analysis_results counts them, over the number of files
\* discovered, times 100, and 0 when no file was discovered
C12_CoverageArithmetic ==
    (scan.pc = "done" /\ outcome.kind = "report") =>
        outcome.report.coverage_percent =
            IF scan.total_files_found = 0 THEN 0
            ELSE RoundDiv(scan.analysis_results.files_analyzed * 1000,
                          scan.total_files_found)

\* the name of the file or of a directory between the scan root and the
\* file matches the test heuristic: an indicator in the name, or a test
\* directory name
LooksLikeTest(name) ==
    \/ \E ind \in TestIndicators : Contains(Lower(name), ind)
    \/ Lower(name) \in TestParents

TestByNameOrAncestor(f) ==
    \/ \E ind \in TestIndicators : Contains(Lower(f.name), ind)
    \/ \E n \in 1..Len(f.dir) : LooksLikeTest(f.dir[n])

\* C13 (as claimed), under SpecTests: with skip_tests, no file whose name or
\* whose ancestor directory at any level matches the test heuristic is a
\* candidate
C13_TestAncestorsExcluded ==
    args.skip_tests =>
        \A f \in tree : TestByNameOrAncestor(f) =>
            AbsPath(args.directory, f) \notin CandidatePaths

\* the entries of the four issue collections that the analysis of a file's
\* content produced (an "Error reading" entry stands for a file never read)
IssueEntries ==
    IF scan.analysis_results = EmptyDict THEN {}
    ELSE {e \in Range(scan.analysis_results.issues_found)
                \cup Range(scan.analysis_results.security_issues)
                \cup Range(scan.analysis_results.performance_issues)
                \cup Range(scan.analysis_results.complexity_issues) :
            e.path[1] # "Error reading"}

\* C14 (as claimed), under SpecTests: every issue found in a file's content,
\* in any of the four collections, carries the path of a selected file
\* relative to the scan root, wherever the working directory is
C14_IssuePrefixRelativeToRoot ==
    \A e \in IssueEntries :
        \E n \in 1..Len(scan.selected_files) :
            e.path = RelativeTo(scan.selected_files[n].path, args.directory)

\* the selected files analyzed one after the other in a single pass
RECURSIVE SequentialPass(_)
SequentialPass(selected) ==
    IF selected = <<>> THEN EmptyResults
    ELSE AnalyzeOne(SequentialPass(SubSeq(selected, 1, Len(selected) - 1)),
                    selected[Len(selected)])

\* C15, under SpecTests: whatever the batch size, when phase 2 is over the
\* aggregate (counts, per-extension counts, the four issue collections and
\* file_summaries, in their order) is the one a single sequential pass over
\* the selected files gives
C15_BatchSizeIndependent ==
    (Selected /\ scan.pc \in {"report", "done"}) =>
        scan.analysis_results = SequentialPass(scan.selected_files)

\* two files were selected and read in two batches of one, and the file
\* with the hardcoded password gave its issue
C15_Witness ==
    /\ scan.pc = "done"
    /\ scan.batch_size = 1
    /\ Len(scan.selected_files) = 2
    /\ scan.analysis_results.files_analyzed = 2
    /\ Len(scan.analysis_results.security_issues) = 1
    /\ scan.i = 2

-----------------------------------------------------------------------------
(* The properties of the score, under SpecPriority *)

\* C16: every score _calculate_file_priority returns is an integer that is
\* not negative, however deep the path and whatever its bonuses
C16_PriorityNotNegative ==
    probe.pc = "scored" => (probe.priority \in Int /\ probe.priority >= 0)

\* a path so deep that the penalty exceeds 1 plus its bonuses was scored 0
C16_Witness ==
    /\ probe.pc = "scored"
    /\ DepthPenalty(probe.path) > 1 + DirBonus(probe.path) + ExtBonus(probe.path)
                                    + NameBonus(probe.path) + SecurityBonus(probe.path)
    /\ probe.priority = 0

\* C17: the score of a path whose file name was given a security keyword,
\* directory and extension unchanged, is not below the score the path had
\* without it
C17_SecurityKeywordMonotone ==
    (probe.pc = "scored" /\ probe.before # NoProbe) =>
        /\ probe.priority >= probe.before.priority
        /\ Suffix(probe.path[Len(probe.path)])
               = Suffix(probe.before.path[Len(probe.before.path)])
        /\ Len(probe.path) = Len(probe.before.path)

\* src/main.py scored 12 and, renamed with a security keyword, 22; and the
\* keyword is what the two names differ by
C17_Witness ==
    /\ probe.pc = "scored"
    /\ probe.before # NoProbe
    /\ probe.before.path = <<"/", "src", "main.py">>
    /\ probe.before.priority = 12
    /\ probe.priority = 22
    /\ probe.path[3] \in {"authmain.py", "mainauth.py"}

\* the file name of the path has a security keyword
HasSecurityKeyword(path) ==
    \E k \in SecurityKeywords : Contains(Lower(path[Len(path)]), k)

\* a path the scan would record as a candidate under the default patterns
IsCandidatePath(path) ==
    /\ \E n \in 1..Len(DefaultPatterns) : Fnmatch(path[Len(path)], DefaultPatterns[n])
    /\ _calculate_file_priority(path) > 0

\* the number of padding directories of a probe path: paths with the same
\* number lie below the same directory
PadOf(path) == Cardinality({n \in 1..Len(path) : path[n] = "d"})

\* C23 (as claimed): a candidate whose file name has a security keyword
\* scores strictly higher than every candidate below the same directory
\* whose file name has none
C23_SecurityDominates ==
    (probe.pc = "scored" /\ HasSecurityKeyword(probe.path) /\ IsCandidatePath(probe.path)) =>
        \A other \in ProbePaths :
            (/\ ~HasSecurityKeyword(other)
             /\ IsCandidatePath(other)
             /\ PadOf(other) = PadOf(probe.path))
            => probe.priority > _calculate_file_priority(other)

\* the bonus of a keyword group: the amount when the lowercased file name
\* contains one of the group's keywords
GroupBonus(path, keywords, amount) ==
    IF \E k \in keywords : Contains(Lower(path[Len(path)]), k) THEN amount ELSE 0

\* C24 (as claimed): the three file-name bonuses are independent and summed,
\* +3 for an entry-point keyword, +2 for a configuration keyword, +10 for a
\* security keyword; seen on paths without depth penalty
C24_KeywordBonusesSummed ==
    (probe.pc = "scored" /\ DepthPenalty(probe.path) = 0) =>
        probe.priority = 1 + DirBonus(probe.path) + ExtBonus(probe.path)
                           + GroupBonus(probe.path, EntryKeywords, 3)
                           + GroupBonus(probe.path, ConfigKeywords, 2)
                           + GroupBonus(probe.path, SecurityKeywords, 10)

\* the segments of the path whose lowercased name is a priority directory
PrioritySegments(path) == {n \in 1..Len(path) : Lower(path[n]) \in PRIORITY_DIRS}

\* C25: the score is 1 plus the extension and file-name bonuses, plus 3 for
\* each segment that is a priority directory, minus (segments - 6) when the
\* path has more than 6 segments and minus nothing otherwise, floored at 0
C25_DepthAndDirectory ==
    probe.pc = "scored" =>
        LET n == Len(probe.path)
            bonuses == 1 + ExtBonus(probe.path) + NameBonus(probe.path)
                         + SecurityBonus(probe.path)
                         + 3 * Cardinality(PrioritySegments(probe.path))
        IN  /\ n <= 6 => probe.priority = bonuses
            /\ n > 6 => probe.priority = Max(bonuses - (n - 6), 0)

\* /d/d/d/src/api/util.py: 7 segments, two of them priority directories,
\* scored 1 + 5 + 6 - 1
C25_Witness ==
    /\ probe.pc = "scored"
    /\ probe.path = <<"/", "d", "d", "d", "src", "api", "util.py">>
    /\ probe.priority = 11

\* the issues the analysis finds in the n-th selected file, over all
\* categories
IssuesIn(n) ==
    LET path == scan.selected_files[n].path
        file_issues == _analyze_file_content(path, FileAt(path).content, args.focus_areas)
    IN  Len(file_issues.general) + Len(file_issues.security)
            + Len(file_issues.performance) + Len(file_issues.complexity)

\* the files the report lists as needing attention
NeedingAttention == {outcome.report.complex_files[k].file :
                        k \in 1..Len(outcome.report.complex_files)}

\* C28 (as claimed), under SpecTests: the report lists as needing attention
\* every analyzed file with more than 3 issues, when they are 5 at most, and
\* no file with 3 issues or fewer, whatever the priority of the file
C28_AttentionByIssueCount ==
    (scan.pc = "done" /\ outcome.kind = "report") =>
        LET analyzed == {n \in 1..Len(scan.selected_files) :
                            Opened(n) /\ RelativeOk(scan.selected_files[n].path)}
            over == {n \in analyzed : IssuesIn(n) > 3}
        IN  /\ Cardinality(over) <= 5 =>
                  \A n \in over :
                      RelativeTo(scan.selected_files[n].path, args.directory)
                          \in NeedingAttention
            /\ \A n \in analyzed \ over :
                  RelativeTo(scan.selected_files[n].path, args.directory)
                      \notin NeedingAttention

\* src/util.py and scripts/helper.py were both analyzed, each has four
\* issues, and the report lists the first only
C28_OnlyHighPriorityListed ==
    /\ scan.pc = "done" /\ outcome.kind = "report"
    /\ Len(scan.selected_files) = 2
    /\ \A n \in 1..2 : Opened(n) /\ IssuesIn(n) = 4
    /\ NeedingAttention = {<<"src", "util.py">>}

\* C29: in the step that ends the scan the in-memory context takes the new
\* last_analysis, total_files, analyzed_files and code_metrics; if the
\* context file was not written in that step, the file is as it was and the
\* caller gets the fault and no report
C29_SaveFailurePropagates ==
    [][(scan.pc = "report" /\ scan'.pc = "done") =>
          LET c == ctx'[Scanner]
              results == scan.analysis_results
          IN  /\ c.last_analysis = now
              /\ c.total_files = scan.total_files_found
              /\ c.analyzed_files = Len(scan.selected_files)
              /\ c.code_metrics.files_analyzed = results.files_analyzed
              /\ c.code_metrics.total_lines = results.total_lines
              /\ c.code_metrics.languages = results.languages
              /\ c.code_metrics.issues_count
                    = Len(results.issues_found) + Len(results.security_issues)
                        + Len(results.performance_issues) + Len(results.complexity_issues)
              /\ disk' # save_context(c) =>
                    /\ disk' = disk
                    /\ outcome' = Fault("OSError")
      ]_vars

\* a scan of two files ended with the fault: the file on disk is not there,
\* and the context in memory counts the two files
C29_Witness ==
    /\ scan.pc = "done"
    /\ outcome = Fault("OSError")
    /\ disk = Absent
    /\ ctx[Scanner].last_analysis # None
    /\ ctx[Scanner].total_files = 2
    /\ ctx[Scanner].analyzed_files = 2
    /\ ctx[Scanner].code_metrics.files_analyzed = 2

-----------------------------------------------------------------------------
(* The properties of the context, under SpecCtx *)

\* C5 (as claimed): a tool call that changes the in-memory context of a
\* process leaves the file equal to that context
C5_MutationSaved ==
    [][\A p \in Procs : ctx'[p] # ctx[p] => disk' = save_context(ctx'[p])]_vars

\* C6: when process q has just added a task and saved, the file is q's
\* context and holds none of the tasks the other process added; no call ends
\* in anything but ok, not found or KeyError
C6_LastWriterWins ==
    /\ last.result \in {"none", "ok", "not found", "KeyError"}
    /\ \A p, q \in Procs :
          (/\ p # q
           /\ last = Call(q, "add_dev_task", "ok")
           /\ "tasks" \in DOMAIN ctx[p])
          => /\ disk = save_context(ctx[q])
             /\ \A t \in Range(ctx[p].tasks) :
                    \A n \in 1..Len(disk.json.tasks) : disk.json.tasks[n].created # t.created

\* both processes added a task, process 2 last; the file holds one task
C6_Witness ==
    /\ last = Call(2, "add_dev_task", "ok")
    /\ "tasks" \in DOMAIN ctx[1]
    /\ Len(ctx[1].tasks) = 1
    /\ Len(ctx[2].tasks) = 1
    /\ Len(disk.json.tasks) = 1

\* C7 (as claimed): a context loaded from a file that lacks keys has them at
\* their defaults, and no later operation fails on a missing key
C7_MissingKeysDefault ==
    last.op # "none" =>
        /\ last.result # "KeyError"
        /\ DOMAIN DefaultContext \subseteq DOMAIN ctx[last.proc]

\* the keys analyze_codebase_smart assigns
ScanKeys == {"last_analysis", "total_files", "analyzed_files", "code_metrics"}

\* every key of the object old outside ScanKeys is in new with its value
SameOutsideScanKeys(old, new) ==
    \A k \in DOMAIN old \ ScanKeys : k \in DOMAIN new /\ new[k] = old[k]

\* C18 (as claimed): a successful analyze_codebase_smart of process p changes
\* nothing but the four keys it assigns, in the context of p and in the file
C18_ScanUpdateFrame ==
    [][\A p \in Procs :
          (last' = Call(p, "analyze_codebase_smart", "ok") /\ now' # now) =>
              /\ SameOutsideScanKeys(ctx[p], ctx'[p])
              /\ ScanKeys \subseteq DOMAIN ctx'[p]
              /\ disk # Absent => SameOutsideScanKeys(disk.json, disk'.json)
      ]_vars

\* the ids of a task list
Ids(tasks) == {tasks[n].id : n \in 1..Len(tasks)}

\* C19: in each process, which started with no task, the ids of its tasks
\* are pairwise distinct and are exactly 1..n for its n tasks, whatever was
\* added, updated and listed; and a call of add_dev_task appends one task
\* whose id is the length the list had, plus one
C19_TaskIds ==
    /\ [](\A p \in Procs : "tasks" \in DOMAIN ctx[p] =>
              /\ Ids(ctx[p].tasks) = 1..Len(ctx[p].tasks)
              /\ \A n, m \in 1..Len(ctx[p].tasks) :
                     n # m => ctx[p].tasks[n].id # ctx[p].tasks[m].id)
    /\ [][\A p \in Procs :
              (last' = Call(p, "add_dev_task", "ok") /\ now' # now) =>
                  /\ Len(ctx'[p].tasks) = Len(ctx[p].tasks) + 1
                  /\ SubSeq(ctx'[p].tasks, 1, Len(ctx[p].tasks)) = ctx[p].tasks
                  /\ ctx'[p].tasks[Len(ctx'[p].tasks)].id = Len(ctx[p].tasks) + 1
         ]_vars

\* a process added a low and an urgent task and listed them, which put
\* task 2 before task 1
C19_Witness ==
    /\ last = Call(1, "list_dev_tasks", "ok")
    /\ Len(ctx[1].tasks) = 2
    /\ ctx[1].tasks[1].id = 2
    /\ ctx[1].tasks[2].id = 1

\* the documented values of a task's status and priority
TaskStatuses == {"todo", "in_progress", "done", "blocked"}
TaskPriorities == {"low", "medium", "high", "urgent"}

\* C20 (as claimed): every task of the file has a status and a priority among
\* the documented values, whatever strings add_dev_task and
\* update_task_status were called with
C20_TaskEnums ==
    (disk # Absent /\ "tasks" \in DOMAIN disk.json) =>
        \A n \in 1..Len(disk.json.tasks) :
            /\ disk.json.tasks[n].status \in TaskStatuses
            /\ disk.json.tasks[n].priority \in TaskPriorities

-----------------------------------------------------------------------------
(* The properties of save_context, under SpecSave *)

-----------------------------------------------------------------------------
(* The properties of the interactive loop, under SpecRepl *)

\* C22: a step of the loop in which an exception other than
\* KeyboardInterrupt was raised prints the error message and leaves the loop
\* at input(); the loop ends only in a step that read quit, exit or bye, or
\* in which KeyboardInterrupt was raised
C22_LoopSurvivesErrors ==
    [][/\ (repl'.raised \notin {"none", "KeyboardInterrupt"}) =>
            /\ repl'.pc = "input"
            /\ repl'.printed = "error"
            /\ repl'.errors = repl.errors + 1
       /\ (repl'.pc = "ended") =>
            \/ repl'.raised = "KeyboardInterrupt"
            \/ repl'.raised = "none" /\ Lower(Strip(repl'.line)) \in QuitWords
      ]_vars

\* two errors were printed and the loop went on to read Exit, on which it
\* ended
C22_Witness ==
    /\ repl.pc = "ended"
    /\ repl.line = "Exit"
    /\ repl.raised = "none"
    /\ repl.errors = 2
    /\ repl.printed = "farewell"

-----------------------------------------------------------------------------
(* The properties of the nesting level check, under SpecNesting *)

\* complexity or maintainability is among the focus areas
ComplexityFocus == "complexity" \in nest.focus_areas \/ "maintainability" \in nest.focus_areas

\* the content was measured to its end and the nesting message is, or is
\* not, among the issues
NestingFlagged == nest.pc = "done" /\ nest.complexity = <<"High nesting level">>
NestingPassed == nest.pc = "done" /\ nest.complexity = <<>>

\* n if blocks inside one another, the brace on the line of the if
BraceIfs(n) == NestedIfs(<<"if (a) {">>, n, 0) \o Repeat(<<"}">>, n)
\* n if blocks inside one another, closed by indentation
ColonIfs(n) == NestedIfs(<<"if a:">>, n, 0) \o <<Indent(n, "x = 1")>>

NoBraces == \A n \in 1..Len(nest.lines) :
               CountChar(nest.lines[n], "{") = 0 /\ CountChar(nest.lines[n], "}") = 0

\* C27: for a content without braces the counter is 0 after every line and
\* the nesting message is not produced
C27_NoBracesStaysZero ==
    NoBraces => nest.current_nesting = 0 /\ ~NestingFlagged

\* seven lines "if a:", each followed by its body, not inside one another,
\* are flagged
C27_FlaggedWithoutBraces ==
    /\ NestingFlagged
    /\ nest.lines = Repeat(<<"if a:", "  x = 1">>, 7)
    /\ nest.current_nesting = 7

-----------------------------------------------------------------------------
(* The properties of the task tools, under SpecTasks *)

\* the two task lists differ at position n only
DifferAtOnly(old, new, n) ==
    /\ Len(new) = Len(old)
    /\ new[n] # old[n]
    /\ \A m \in 1..Len(old) : m # n => new[m] = old[m]

\* C30: a call of update_task_status or complete_task that answers not found
\* leaves the task list in memory and the file as they were; complete_task
\* answers not found exactly if no task has the id; a call that found a task
\* changes the first task with that id and no other, and saves
C30_NotFoundChangesNothing ==
    [][/\ \A p \in Procs :
             /\ last' = Call(p, "update_task_status", "not found") =>
                   ctx' = ctx /\ disk' = disk
             /\ (last' = Call(p, "update_task_status", "ok") /\ ctx' # ctx) =>
                   /\ \E n \in 1..Len(ctx[p].tasks) :
                         /\ DifferAtOnly(ctx[p].tasks, ctx'[p].tasks, n)
                         /\ FirstWithId(ctx[p].tasks, ctx[p].tasks[n].id) = n
                         /\ ctx'[p].tasks[n].id = ctx[p].tasks[n].id
                         /\ ctx'[p].tasks[n].last_updated = now
                   /\ \A q \in Procs \ {p} : ctx'[q] = ctx[q]
                   /\ disk' = save_context(ctx'[p])
       /\ (memory' # memory /\ memory'.call.op = "complete_task") =>
             LET tasks == memory.memory.tasks
                 task_id == memory'.call.task_id
             IN  /\ memory'.call.result = "not found" <=> task_id \notin Ids(tasks)
                 /\ memory'.call.result = "not found" =>
                       memory'.memory = memory.memory /\ memory'.file = memory.file
                 /\ memory'.call.result = "ok" =>
                       /\ \E n \in 1..Len(tasks) :
                             /\ DifferAtOnly(tasks, memory'.memory.tasks, n)
                             /\ n = FirstWithId(tasks, task_id)
                             /\ \A m \in 1..(n - 1) : tasks[m].id # task_id
                             /\ memory'.memory.tasks[n].completed
                       /\ memory'.file = save_memory(memory'.memory)
      ]_vars

\* update_task_status did not find its task in a list of two, after which
\* the list and the file are as add_dev_task left them; and complete_task
\* did not find task 3 among two reminders, none of them completed
C30_Witness ==
    /\ last = Call(1, "update_task_status", "not found")
    /\ Len(ctx[1].tasks) = 1
    /\ ctx[1].tasks[1].status = "todo"
    /\ disk = save_context(ctx[1])
    /\ memory.call = [op |-> "complete_task", task_id |-> 3, result |-> "not found"]
    /\ Len(memory.memory.tasks) = 2
    /\ \A n \in 1..2 : ~memory.memory.tasks[n].completed

\* of two tasks with the id 1, update_task_status changed the first and left
\* the second, and so did complete_task with its two reminders
C30_FirstOfTwo ==
    /\ last = Call(1, "update_task_status", "ok")
    /\ Ids(ctx[1].tasks) = {1}
    /\ Len(ctx[1].tasks) = 2
    /\ ctx[1].tasks[1].status = "done"
    /\ ctx[1].tasks[2].status = "todo"
    /\ memory.call = [op |-> "complete_task", task_id |-> 1, result |-> "ok"]
    /\ memory.memory.tasks[1].completed
    /\ ~memory.memory.tasks[2].completed

=============================================================================
